---- MODULE Spec2Model ----
(***************************************************************************)
(* git-auto-updater: the update-scheduling and process-supervision state   *)
(* machine.  The repository holds two revisions of the program:            *)
(*   src/unnamed/part_000        one-shot setTimeout rescheduling, exit    *)
(*                               observer registered with .on('exit')      *)
(*   src/lib/git-auto-updater.js setInterval, exit callback handed to      *)
(*                               ChildProcess.spawn as a fourth argument   *)
(* Both are modelled; `variant` says which one a behaviour runs.           *)
(* Node runs every callback to completion, so each action is one whole     *)
(* event-loop turn: a timer callback or the emission of a child's 'exit'.  *)
(***************************************************************************)
EXTENDS Integers, Sequences, FiniteSets

\* Bounds of the model.
MaxChildren == 3    \* process slots (children not yet reaped + the stale handle)
MaxRev == 2         \* commits pushed to the remote
MaxListeners == 2   \* 'exit' listeners update() may stack on one child
MaxGitCalls == 4    \* a turn's k-th git call may fail, k in 1..MaxGitCalls

Pids == 1..MaxChildren
Variants == {"setTimeout", "setInterval"}

VARIABLES
  variant,         \* which revision of the program runs
  command,         \* conf.command is set (a command was given after --)
  pc,              \* "setup" | "running" | "terminated" (the supervisor process)
  commandProcess,  \* the handle: 0 is null, otherwise a pid
  child,           \* pid -> [state, listeners, signals]
  timers,          \* outstanding setTimeout(checkForUpdates) timers
  interval,        \* setInterval(checkForUpdates) is installed
  currentRev,      \* git rev-parse HEAD
  upstreamRev,     \* git rev-parse HEAD@{u}: the remote-tracking ref
  remoteRev,       \* head of the branch on the remote
  cycle,           \* history: events since the latest checkForUpdates began
  pullAlive,       \* history: children not yet reaped when git pull last ran
  argv,            \* the options of the command line (process.argv)
  fs,              \* what conf.path is on disk when the program starts
  now,             \* the wall clock read by new Date(): hours and minutes
  conf,            \* conf: repository, path, frequency, time
  delay            \* the delay of the latest setTimeout(checkForUpdates, delay)

vars == <<variant, command, pc, commandProcess, child, timers, interval,
          currentRev, upstreamRev, remoteRev, cycle, pullAlive,
          argv, fs, now, conf, delay>>

\* What the program reads and never writes.
inputs == <<argv, fs, now>>

\* A JavaScript number: an integer, or NaN (what Number.parseInt gives for
\* a missing or non-numeric argument).
Num(n) == [nan |-> FALSE, n |-> n]
NaN == [nan |-> TRUE, n |-> 0]
Plus(a, b) == IF a.nan \/ b.nan THEN NaN ELSE Num(a.n + b.n)
Minus(a, b) == IF a.nan \/ b.nan THEN NaN ELSE Num(a.n - b.n)
Times(a, b) == IF a.nan \/ b.nan THEN NaN ELSE Num(a.n * b.n)
Greater(a, b) == ~a.nan /\ ~b.nan /\ a.n > b.n
StrictEq(a, b) == ~a.nan /\ ~b.nan /\ a.n = b.n

NoChild == [state |-> "none", listeners |-> <<>>, signals |-> 0]

\* The mutable program state as one value, so that a handler and every call
\* it makes compose as functions.  failAt: which git call of this turn
\* throws (0: none).  full: the turn needed a process slot beyond MaxChildren.
St(f) ==
  [pc |-> pc, commandProcess |-> commandProcess, child |-> child,
   timers |-> timers, interval |-> interval, currentRev |-> currentRev,
   upstreamRev |-> upstreamRev, cycle |-> cycle, pullAlive |-> pullAlive,
   conf |-> conf, delay |-> delay,
   failAt |-> f, full |-> FALSE]

Commit(s) ==
  /\ ~s.full
  /\ pc' = s.pc
  /\ commandProcess' = s.commandProcess
  /\ child' = s.child
  /\ timers' = s.timers
  /\ interval' = s.interval
  /\ currentRev' = s.currentRev
  /\ upstreamRev' = s.upstreamRev
  /\ cycle' = s.cycle
  /\ pullAlive' = s.pullAlive
  /\ conf' = s.conf
  /\ delay' = s.delay
  /\ UNCHANGED <<variant, command, remoteRev, inputs>>

Log(s, e) == [s EXCEPT !.cycle = Append(@, e)]

Unreaped(ch) == {p \in Pids : ch[p].state \in {"running", "exited"}}
Running(ch) == {p \in Pids : ch[p].state = "running"}

\* ChildProcess.execFileSync('git', ...): returns, or throws; nothing in the
\* steady-state loop catches, so a throw ends the supervisor.
\* execFileSync whose failure is swallowed: the caller goes on.
execFileSync_Caught(s) ==
  IF s.pc # "running" THEN s
  ELSE IF s.failAt = 1
       THEN Log([s EXCEPT !.failAt = 0], "throw")
       ELSE [s EXCEPT !.failAt = IF @ > 1 THEN @ - 1 ELSE 0]

execFileSync(s) ==
  IF s.pc # "running" THEN s
  ELSE IF s.failAt = 1
       THEN Log([s EXCEPT !.pc = "terminated", !.failAt = 0], "throw")
       ELSE [s EXCEPT !.failAt = IF @ > 1 THEN @ - 1 ELSE 0]

gitFetch(s) ==
  LET g == execFileSync(s)
  IN IF g.pc # "running" THEN g ELSE [g EXCEPT !.upstreamRev = remoteRev]

gitPull(s) ==
  LET g == execFileSync(s)
  IN IF g.pc # "running" THEN g
     ELSE Log([g EXCEPT !.currentRev = remoteRev, !.upstreamRev = remoteRev,
                        !.pullAlive = Unreaped(g.child)], "pull")

FreePids(s) == {p \in Pids : s.child[p].state \in {"none", "reaped"}}

\* part_000 registers the observer with .on('exit'); lib hands it to spawn as
\* a fourth argument, which ChildProcess.spawn(command, args, options) ignores.
SpawnListeners == IF variant = "setTimeout" THEN <<"clear">> ELSE <<>>

\* startCommand without its test of conf.command.
startCommand_Unguarded(s) ==
  IF s.pc # "running" THEN s
  ELSE IF FreePids(s) = {} THEN [s EXCEPT !.full = TRUE]
  ELSE LET p == CHOOSE q \in FreePids(s) : \A r \in FreePids(s) : q <= r
       IN Log([s EXCEPT !.commandProcess = p,
                        !.child[p] = [state |-> "running",
                                      listeners |-> SpawnListeners,
                                      signals |-> 0]], "start")

startCommand(s) ==
  IF s.pc # "running" \/ ~command THEN s
  ELSE IF FreePids(s) = {} THEN [s EXCEPT !.full = TRUE]
  ELSE LET p == CHOOSE q \in FreePids(s) : \A r \in FreePids(s) : q <= r
       IN Log([s EXCEPT !.commandProcess = p,
                        !.child[p] = [state |-> "running",
                                      listeners |-> SpawnListeners,
                                      signals |-> 0]], "start")

\* The delay scheduleUpdateCheck computes: in time-of-day mode from the
\* clock (12 is taken off the current hour when the clock is past the
\* target), otherwise from the frequency in minutes.
\* updateDelay taking a whole day off the current hour.
updateDelay_Minus24(c, clock) ==
  IF c.time.set
  THEN LET past == \/ Greater(Num(clock.hours), c.time.hours)
                   \/ /\ Greater(Num(clock.minutes), c.time.minutes)
                      /\ StrictEq(Num(clock.hours), c.time.hours)
           hours == IF past THEN clock.hours - 24 ELSE clock.hours
       IN Plus(Times(Minus(c.time.hours, Num(hours)), Num(60 * 60 * 1000)),
               Times(Minus(c.time.minutes, Num(clock.minutes)),
                     Num(60 * 1000)))
  ELSE Times(c.frequency, Num(60 * 1000))

updateDelay(c, clock) ==
  IF c.time.set
  THEN LET past == \/ Greater(Num(clock.hours), c.time.hours)
                   \/ /\ Greater(Num(clock.minutes), c.time.minutes)
                      /\ StrictEq(Num(clock.hours), c.time.hours)
           hours == IF past THEN clock.hours - 12 ELSE clock.hours
       IN Plus(Times(Minus(c.time.hours, Num(hours)), Num(60 * 60 * 1000)),
               Times(Minus(c.time.minutes, Num(clock.minutes)),
                     Num(60 * 1000)))
  ELSE Times(c.frequency, Num(60 * 1000))

\* setTimeout(checkForUpdates, delay): one more one-shot timer.
scheduleUpdateCheck(s) ==
  IF s.pc # "running" THEN s
  ELSE Log([s EXCEPT !.timers = @ + 1,
                     !.delay = updateDelay(s.conf, now)], "schedule")

\* What the cycle does once it is over: part_000 reschedules, lib relies
\* on its interval.
Reschedule(s) == IF variant = "setTimeout" THEN scheduleUpdateCheck(s) ELSE s

\* On a handle whose 'exit' was already emitted (lib only), kill() finds no
\* process and returns false, and the listener can never run: however many
\* are registered, they are kept as one.
update(s) ==
  IF s.pc # "running" THEN s
  ELSE IF s.commandProcess # 0
  THEN LET p == s.commandProcess
       IN IF s.child[p].state = "reaped"
          THEN Log([s EXCEPT !.child[p].listeners = <<"update">>], "signal")
          ELSE IF Len(s.child[p].listeners) >= MaxListeners
          THEN [s EXCEPT !.full = TRUE]
          ELSE Log([s EXCEPT !.child[p].listeners = Append(@, "update"),
                             !.child[p].signals = @ + 1], "signal")
  ELSE Reschedule(startCommand(gitPull(s)))

\* checkForUpdates that reschedules after update() returns as well.
checkForUpdates_SchedulesAfterUpdate(s) ==
  LET c == [s EXCEPT !.cycle = <<"check">>]
      f == gitFetch(c)
      r == execFileSync(execFileSync(f))
  IN IF r.pc # "running" THEN r
     ELSE IF r.currentRev # r.upstreamRev
          THEN Reschedule(update(Log(r, "differ")))
          ELSE Reschedule(Log(r, "equal"))

\* checkForUpdates that updates whatever the comparison says.
checkForUpdates_NoComparison(s) ==
  LET c == [s EXCEPT !.cycle = <<"check">>]
      f == gitFetch(c)
      r == execFileSync(execFileSync(f))
  IN IF r.pc # "running" THEN r
     ELSE IF r.currentRev # r.upstreamRev
          THEN update(Log(r, "differ"))
          ELSE update(Log(r, "equal"))

checkForUpdates(s) ==
  LET c == [s EXCEPT !.cycle = <<"check">>]
      f == gitFetch(c)
      r == execFileSync(execFileSync(f))
  IN IF r.pc # "running" THEN r
     ELSE IF r.currentRev # r.upstreamRev
          THEN update(Log(r, "differ"))
          ELSE Reschedule(Log(r, "equal"))

\* The listener of update() entering update() with the handle still set.
Listener_KeepsHandle(s, l) ==
  IF s.pc # "running" THEN s
  ELSE IF l = "clear" THEN [s EXCEPT !.commandProcess = 0]
  ELSE update(s)

\* An exit observer that starts the command again.
Listener_Restarts(s, l) ==
  IF s.pc # "running" THEN s
  ELSE IF l = "clear" THEN startCommand([s EXCEPT !.commandProcess = 0])
  ELSE update([s EXCEPT !.commandProcess = 0])

\* One 'exit' listener: the observer of startCommand, or the one of update().
Listener(s, l) ==
  IF s.pc # "running" THEN s
  ELSE IF l = "clear" THEN [s EXCEPT !.commandProcess = 0]
  ELSE update([s EXCEPT !.commandProcess = 0])

\* EventEmitter.emit: the listeners registered so far, in registration order.
RECURSIVE emit(_, _)
emit(s, ls) ==
  IF ls = <<>> THEN s ELSE emit(Listener(s, Head(ls)), Tail(ls))

\* var conf = {...}: nothing given, frequency 1440, no time.
DefaultConf ==
  [repository |-> FALSE, path |-> FALSE, frequency |-> Num(1440),
   time |-> [set |-> FALSE, hours |-> Num(0), minutes |-> Num(0)]]

\* A command line with none of -r, -p, -f, -t.
Absent == [given |-> FALSE, val |-> Num(0)]
DefaultArgv ==
  [repository |-> FALSE, path |-> FALSE, frequency |-> Absent, time |-> Absent]

\* The supervisor with its configuration read and its tree prepared, about to
\* start the command (a repository and a path, checks every 1440 minutes).
Init ==
  /\ variant \in Variants
  /\ command \in BOOLEAN
  /\ pc = "setup"
  /\ commandProcess = 0
  /\ child = [p \in Pids |-> NoChild]
  /\ timers = 0
  /\ interval = FALSE
  /\ currentRev = 0
  /\ upstreamRev = 0
  /\ remoteRev = 0
  /\ cycle = <<>>
  /\ pullAlive = {}
  /\ argv = DefaultArgv
  /\ fs = "dir"
  /\ now = [hours |-> 0, minutes |-> 0]
  /\ conf = [DefaultConf EXCEPT !.repository = TRUE, !.path = TRUE]
  /\ delay = Num(0)

\* End of the top-level script, the local tree being prepared: start the
\* command, then schedule the first check (part_000) or install the
\* interval (lib).
Startup ==
  /\ pc = "setup"
  /\ LET s == [St(0) EXCEPT !.pc = "running", !.currentRev = remoteRev,
                            !.upstreamRev = remoteRev]
         t == startCommand(s)
     IN Commit(IF variant = "setTimeout" THEN scheduleUpdateCheck(t)
               ELSE [t EXCEPT !.interval = TRUE])

\* A setTimeout timer of part_000 expires.
TimeoutFire(f) ==
  /\ pc = "running"
  /\ timers > 0
  /\ Commit(checkForUpdates([St(f) EXCEPT !.timers = @ - 1]))

\* The interval of lib ticks.
IntervalFire(f) ==
  /\ pc = "running"
  /\ interval
  /\ Commit(checkForUpdates(St(f)))

\* The child process ends, on its own or because of a signal; Node has not
\* yet emitted 'exit'.
ChildExit(p) ==
  /\ child[p].state = "running"
  /\ child' = [child EXCEPT ![p].state = "exited"]
  /\ UNCHANGED <<variant, command, pc, commandProcess, timers, interval,
                 currentRev, upstreamRev, remoteRev, cycle, pullAlive,
                 inputs, conf, delay>>

\* Node emits 'exit' for child p.
DeliverExit(p, f) ==
  /\ pc = "running"
  /\ child[p].state = "exited"
  /\ LET s == Log([St(f) EXCEPT !.child[p].state = "reaped",
                                !.child[p].listeners = <<>>], "exit")
     IN Commit(emit(s, child[p].listeners))

\* Somebody pushes a commit to the remote branch.
Push ==
  /\ remoteRev < MaxRev
  /\ remoteRev' = remoteRev + 1
  /\ UNCHANGED <<variant, command, pc, commandProcess, child, timers,
                 interval, currentRev, upstreamRev, cycle, pullAlive,
                 inputs, conf, delay>>

Next ==
  \/ Startup
  \/ \E f \in 0..MaxGitCalls : TimeoutFire(f)
  \/ \E f \in 0..MaxGitCalls : IntervalFire(f)
  \/ \E p \in Pids : ChildExit(p)
  \/ \E p \in Pids, f \in 0..MaxGitCalls : DeliverExit(p, f)
  \/ Push

Spec == Init /\ [][Next]_vars

\* part_000 alone: the interval of lib never ticks.
InitTimeout == Init /\ variant = "setTimeout"

NextTimeout ==
  \/ Startup
  \/ \E f \in 0..MaxGitCalls : TimeoutFire(f)
  \/ \E p \in Pids : ChildExit(p)
  \/ \E p \in Pids, f \in 0..MaxGitCalls : DeliverExit(p, f)
  \/ Push

SpecTimeout == InitTimeout /\ [][NextTimeout]_vars

\* Every git call succeeds.  Node fires a due timer and emits a pending
\* 'exit'; a child that was signalled ends.
NextLive ==
  \/ Startup
  \/ TimeoutFire(0)
  \/ IntervalFire(0)
  \/ \E p \in Pids : ChildExit(p)
  \/ \E p \in Pids : DeliverExit(p, 0)
  \/ Push

Fairness ==
  /\ WF_vars(Startup)
  /\ WF_vars(TimeoutFire(0))
  /\ WF_vars(IntervalFire(0))
  /\ \A p \in Pids : WF_vars(DeliverExit(p, 0))
  /\ \A p \in Pids : WF_vars(child[p].signals > 0 /\ ChildExit(p))

SpecLive == Init /\ [][NextLive]_vars /\ Fairness

----
\* The top-level script: parseArguments, validateConfiguration, preparation
\* of the local tree, startCommand, first scheduling.  Node runs it as one
\* turn.

Min(a, b) == IF a.nan \/ b.nan THEN NaN ELSE IF a.n < b.n THEN a ELSE b
\* Math.floor(x / 100) and the remainder x % 100 (which keeps the sign of x).
FloorDiv100(a) == IF a.nan THEN NaN ELSE Num(a.n \div 100)
Rem100(a) ==
  IF a.nan THEN NaN
  ELSE IF a.n < 0 THEN Num(0 - ((0 - a.n) % 100)) ELSE Num(a.n % 100)

\* case '-t': conf.time from the HHMM number.
\* parseTime capping at 24 and 60.
parseTime_OneTooMany(time) ==
  [set |-> TRUE, hours |-> Min(FloorDiv100(time), Num(24)),
   minutes |-> Min(Rem100(time), Num(60))]

parseTime(time) ==
  [set |-> TRUE, hours |-> Min(FloorDiv100(time), Num(23)),
   minutes |-> Min(Rem100(time), Num(59))]

\* parseArguments: lib knows neither -t nor conf.time.
parseArguments(c, a) ==
  [c EXCEPT !.repository = a.repository,
            !.path = a.path,
            !.frequency = IF a.frequency.given THEN a.frequency.val ELSE @,
            !.time = IF a.time.given /\ variant = "setTimeout"
                     THEN parseTime(a.time.val) ELSE @]

\* validateConfiguration first derives the path from the repository URI.
derivePath(c) ==
  IF ~c.path /\ c.repository THEN [c EXCEPT !.path = TRUE] ELSE c

\* Number.isInteger(conf.frequency) && conf.frequency >= 1
ValidFrequency(c) == ~c.frequency.nan /\ c.frequency.n >= 1

\* validateConfiguration, on the configuration with its path derived:
\* part_000 wants a repository or a path, and a time or a frequency; lib
\* wants a repository and a path, and a frequency.
validateConfiguration(c) ==
  IF variant = "setTimeout"
  THEN /\ ~(~c.repository /\ ~c.path)
       /\ ~(~c.time.set /\ ~ValidFrequency(c))
  ELSE /\ ~(~c.repository \/ ~c.path)
       /\ ValidFrequency(c)

\* process.exit(1)
exit1(s) == Log([s EXCEPT !.pc = "exit1"], "exit1")

\* An exception nothing catches.
uncaught(s) == Log([s EXCEPT !.pc = "terminated"], "throw")

\* The catch block of the preparation, entered with ENOENT: clone.  Only
\* part_000 tests conf.repository.  g.missing: there is no git to execute,
\* and every execFileSync throws ENOENT.
cloneTree(s, g) ==
  IF variant = "setTimeout" /\ ~s.conf.repository THEN exit1(s)
  ELSE IF g.missing \/ ~g.clone THEN uncaught(s)
  ELSE Log([s EXCEPT !.currentRev = remoteRev, !.upstreamRev = remoteRev],
           "tree-clone")

\* The try block: stat, chdir, fetch, checkout (or checkout -t), pull; an
\* error whose code is not ENOENT ends the program with status 1.
\* The preparation whose catch block takes every error for ENOENT.
prepareTree_EveryErrorIsAbsent(s, g) ==
  IF fs = "file" THEN exit1(s)
  ELSE IF fs = "error" \/ fs = "absent" THEN cloneTree(s, g)
  ELSE IF g.missing THEN cloneTree(s, g)
  ELSE IF ~g.fetch THEN cloneTree(s, g)
  ELSE IF ~g.checkout /\ ~g.track THEN cloneTree(Log(s, "tree-fetch"), g)
  ELSE IF ~g.pull
       THEN cloneTree(Log(Log(s, "tree-fetch"), "tree-checkout"), g)
  ELSE Log(Log(Log([s EXCEPT !.currentRev = remoteRev,
                             !.upstreamRev = remoteRev],
                   "tree-fetch"), "tree-checkout"), "tree-pull")

prepareTree(s, g) ==
  IF fs = "file" \/ fs = "error" THEN exit1(s)
  ELSE IF fs = "absent" THEN cloneTree(s, g)
  ELSE IF g.missing THEN cloneTree(s, g)
  ELSE IF ~g.fetch THEN exit1(s)
  ELSE IF ~g.checkout /\ ~g.track THEN exit1(Log(s, "tree-fetch"))
  ELSE IF ~g.pull THEN exit1(Log(Log(s, "tree-fetch"), "tree-checkout"))
  ELSE Log(Log(Log([s EXCEPT !.currentRev = remoteRev,
                             !.upstreamRev = remoteRev],
                   "tree-fetch"), "tree-checkout"), "tree-pull")

\* startCommand(); then scheduleUpdateCheck() or setInterval(...).
startLoop(s) ==
  IF s.pc # "running" THEN s
  ELSE IF variant = "setTimeout" THEN scheduleUpdateCheck(startCommand(s))
  ELSE [startCommand(s) EXCEPT !.interval = TRUE]

main(s, g) ==
  LET c == derivePath(parseArguments(s.conf, argv))
      r == [s EXCEPT !.pc = "running", !.conf = c]
  IN IF ~validateConfiguration(c) THEN exit1(Log(r, "usage"))
     ELSE startLoop(prepareTree(r, g))

GitRuns ==
  [missing : BOOLEAN, fetch : BOOLEAN, checkout : BOOLEAN, track : BOOLEAN,
   pull : BOOLEAN, clone : BOOLEAN]

Main(g) ==
  /\ pc = "launch"
  /\ Commit(main(St(0), g))

NextMain == \E g \in GitRuns : Main(g)

\* Command lines: -r and -p given or not, -f and -t absent, not a number,
\* or one of a few numbers.
Frequencies == {NaN, Num(-1), Num(0), Num(1), Num(60)}
TimeArgs == {NaN, Num(200), Num(2561)}
Given(vals) == {Absent} \cup {[given |-> TRUE, val |-> v] : v \in vals}
Argvs(fqs, tms) ==
  [repository : BOOLEAN, path : BOOLEAN, frequency : Given(fqs),
   time : Given(tms)]

\* The program before its first statement.
Launch(args, paths) ==
  /\ variant \in Variants
  /\ command \in BOOLEAN
  /\ pc = "launch"
  /\ commandProcess = 0
  /\ child = [p \in Pids |-> NoChild]
  /\ timers = 0
  /\ interval = FALSE
  /\ currentRev = 0
  /\ upstreamRev = 0
  /\ remoteRev = 0
  /\ cycle = <<>>
  /\ pullAlive = {}
  /\ argv \in args
  /\ fs \in paths
  /\ conf = DefaultConf
  /\ delay = Num(0)

PathStates == {"dir", "file", "absent", "error"}

InitMain ==
  /\ Launch(Argvs(Frequencies, TimeArgs), PathStates)
  /\ now = [hours |-> 0, minutes |-> 0]

SpecMain == InitMain /\ [][NextMain]_vars

\* Time-of-day mode of part_000: -t HHMM for every hour and a few minutes
\* (around the start, the middle and the end of the hour), read at every minute of the day, git
\* succeeding throughout.
Hours == 0..23
Minutes == 0..59
TargetMinutes == {0, 1, 29, 30, 31, 58, 59}
GitOk ==
  [missing |-> FALSE, fetch |-> TRUE, checkout |-> TRUE, track |-> TRUE,
   pull |-> TRUE, clone |-> TRUE]

InitSchedule ==
  /\ Launch({[repository |-> TRUE, path |-> TRUE, frequency |-> Absent,
              time |-> [given |-> TRUE, val |-> Num(h * 100 + m)]] :
               h \in Hours, m \in TargetMinutes}, {"dir"})
  /\ variant = "setTimeout"
  /\ command
  /\ now \in [hours : Hours, minutes : Minutes]

NextSchedule == Main(GitOk)

SpecSchedule == InitSchedule /\ [][NextSchedule]_vars

\* -t with every number up to MaxTime, a few negative ones and no number at
\* all (part_000; lib has no -t).
MaxTime == 9999
InitParse ==
  /\ Launch({[repository |-> TRUE, path |-> TRUE, frequency |-> Absent,
              time |-> [given |-> TRUE, val |-> v]] :
               v \in {NaN} \cup {Num(n) : n \in (0 - 101)..MaxTime}},
            {"dir"})
  /\ variant = "setTimeout"
  /\ command
  /\ now = [hours |-> 0, minutes |-> 0]

SpecParse == InitParse /\ [][NextSchedule]_vars

----
\* Vocabulary of the properties.

Count(e, seq) == Cardinality({i \in 1..Len(seq) : seq[i] = e})
Has(e, seq) == \E i \in 1..Len(seq) : seq[i] = e

\* update() has signalled child p and its 'exit' listener has not run.
WaitingOn(p) == Has("update", child[p].listeners)
InFlight == \E p \in Pids : WaitingOn(p)

\* The latest check found the revisions different / equal.
FoundDiffer == Len(cycle) >= 2 /\ cycle[2] = "differ"
FoundEqual == Len(cycle) >= 2 /\ cycle[2] = "equal"

\* A next check is due: a one-shot timer of part_000, or the interval of lib.
CheckPending == IF variant = "setTimeout" THEN timers = 1 ELSE interval

CheckFires == \E f \in 0..MaxGitCalls : TimeoutFire(f) \/ IntervalFire(f)
----
\* C1 (stop-before-pull): whenever git pull runs, every child that was
\* started has had its exit observed: no child is running, and none has
\* ended without its 'exit' having been emitted.
C1_StopBeforePull == pullAlive = {}

\* C1: a pull that followed a signal and the observed exit of the child.
C1_PullAfterStop ==
  Has("signal", cycle) /\ Has("exit", cycle) /\ Has("pull", cycle)

\* C2: at most one child started by startCommand is alive (spawned and not
\* yet ended) in any reachable state.
C2_AtMostOneChild == Cardinality(Running(child)) <= 1

\* C2: a child was started again after an update.
C2_Restarted ==
  Has("pull", cycle) /\ Has("start", cycle) /\ Running(child) # {}

\* C3: checkForUpdates never starts while a cycle is in flight, that is
\* while update() has signalled the child and waits for its exit.
C3_CyclesNeverOverlap == [][CheckFires => ~InFlight]_vars

\* C3: update() has signalled a running child and waits.
C3_Waiting ==
  \E p \in Pids : WaitingOn(p) /\ child[p].state = "running"
\* C4: scheduleUpdateCheck runs once at startup and once at the end of every
\* completed cycle, so in part_000 there is never more than one timer, there
\* is exactly one whenever the supervisor runs with no cycle in flight, and
\* none while a cycle is in flight.
C4_OneTimer ==
  /\ timers <= 1
  /\ pc = "running" =>
       /\ timers = (IF InFlight THEN 0 ELSE 1)
       /\ Count("schedule", cycle) = (IF InFlight THEN 0 ELSE 1)

\* C4: a cycle that updated is over and its one timer is outstanding.
C4_RescheduledAfterUpdate ==
  /\ variant = "setTimeout" /\ pc = "running" /\ timers = 1
  /\ FoundDiffer /\ Has("exit", cycle) /\ Has("pull", cycle)

\* The events of a cycle that found different revisions, in order: the
\* signal and the observed exit when a child is live, the pull, the start
\* when a command is configured, the rescheduling where the revision has it.
CycleStart == IF command THEN <<"start">> ELSE <<>>
CycleSchedule == IF variant = "setTimeout" THEN <<"schedule">> ELSE <<>>
CycleTail == <<"pull">> \o CycleStart \o CycleSchedule
UpdateCycles ==
  { <<"check", "differ">> \o CycleTail,
    <<"check", "differ", "signal", "exit">> \o CycleTail }

IsPrefix(a, b) == Len(a) <= Len(b) /\ a = SubSeq(b, 1, Len(a))

\* a, then only exits observed after the cycle was over.
OverThenExits(a, c) ==
  /\ IsPrefix(a, c)
  /\ \A i \in (Len(a) + 1)..Len(c) : c[i] = "exit"

\* C5: in a cycle that found different revisions the events are, in this
\* order: signal to the live child (if any), its exit observed, pull, start
\* of the command, scheduling of the next check; pull and start happen once.
\* (A git call that throws ends the cycle where it stands.)
C5_UpdateOrder ==
  FoundDiffer =>
    LET c == SelectSeq(cycle, LAMBDA e : e # "throw")
    IN \E a \in UpdateCycles : IsPrefix(c, a) \/ OverThenExits(a, c)

\* C5: a whole update cycle with a live child.
C5_FullCycle ==
  /\ FoundDiffer /\ Has("signal", cycle) /\ Has("exit", cycle)
  /\ Has("pull", cycle) /\ Has("start", cycle) /\ CheckPending

\* C6: a check that finds the revisions equal sends no signal, pulls
\* nothing, starts no process, leaves the handle as it is, and has the next
\* check scheduled.
C6_EqualCheckFrame ==
  [][(CheckFires /\ FoundEqual') =>
       /\ commandProcess' = commandProcess
       /\ child' = child
       /\ currentRev' = currentRev
       /\ pullAlive' = pullAlive
       /\ cycle' = <<"check", "equal">> \o CycleSchedule
       /\ pc' = "running"
       /\ CheckPending']_vars

\* C6: a check found equal revisions while a child was running.
C6_EqualWithChild ==
  /\ FoundEqual /\ Len(cycle) <= 3
  /\ commandProcess # 0 /\ child[commandProcess].state = "running"

\* C7: while a signalled child does not exit, nothing happens in the
\* supervisor: no pull, no start, no check scheduled or fired, no further
\* signal.  (Only the remote may move.)
C7_WaitsForever ==
  [][\A p \in Pids :
       (pc = "running" /\ WaitingOn(p) /\ child[p].state = "running"
          /\ child'[p].state = "running")
       => UNCHANGED <<pc, commandProcess, child, timers, interval,
                      currentRev, upstreamRev, cycle, pullAlive>>]_vars

\* C8: with git succeeding and signalled children exiting, a check that
\* finds different revisions leads to the pull, the restart of the command
\* and a pending next check.
C8_UpdateCompletes ==
  (pc = "running" /\ FoundDiffer)
    ~> (/\ Has("pull", cycle)
        /\ command => Has("start", cycle)
        /\ CheckPending /\ ~InFlight)

\* C9: once the exit of a started child has been observed, the handle no
\* longer refers to it (so a later update() pulls at once).
C9_ExitClearsHandle ==
  \A p \in Pids : child[p].state = "reaped" => commandProcess # p

\* C9: the child ended on its own and its exit was observed.
C9_UnsolicitedExit ==
  \E p \in Pids : child[p].state = "reaped" /\ child[p].signals = 0

\* C10: without a command the handle is always null, no process is ever
\* spawned or signalled, and update() pulls at once.
C10_NoCommand ==
  ~command =>
    /\ commandProcess = 0
    /\ child = [p \in Pids |-> NoChild]
    /\ ~Has("start", cycle) /\ ~Has("signal", cycle) /\ ~Has("exit", cycle)
    /\ FoundDiffer => Len(cycle) >= 3 /\ cycle[3] \in {"pull", "throw"}

\* C10: an update ran without a command.
C10_PulledWithoutCommand ==
  ~command /\ FoundDiffer /\ Has("pull", cycle) /\ CheckPending
----
\* Time-of-day scheduling.

\* scheduleUpdateCheck has run in time-of-day mode.
ScheduledByTime ==
  pc = "running" /\ conf.time.set /\ Has("schedule", cycle)

\* The clock is past the target: a later hour, or the same hour and a later
\* minute.
PastTarget ==
  \/ now.hours > conf.time.hours.n
  \/ now.hours = conf.time.hours.n /\ now.minutes > conf.time.minutes.n

MinuteOfDay(h, m) == h * 60 + m

\* C11: in time-of-day mode the timer fires at the next occurrence of the
\* configured hour:minute: the delay is a whole number of minutes, at most a
\* day ahead, and now + delay is the target time of day.
C11_FiresAtTarget ==
  ScheduledByTime =>
    /\ ~delay.nan
    /\ delay.n >= 0 /\ delay.n <= 24 * 60 * 60 * 1000
    /\ delay.n % 60000 = 0
    /\ (MinuteOfDay(now.hours, now.minutes) + delay.n \div 60000) % (24 * 60)
         = MinuteOfDay(conf.time.hours.n, conf.time.minutes.n)

\* C11: a check was scheduled with the clock past the target.
C11_ScheduledPastTarget == ScheduledByTime /\ PastTarget

\* C16 as stated: past the target, 12 is taken off the target hour.
C16_TargetHourMinus12 ==
  ScheduledByTime =>
    delay = Num(((IF PastTarget THEN conf.time.hours.n - 12
                  ELSE conf.time.hours.n) - now.hours) * 3600000
                + (conf.time.minutes.n - now.minutes) * 60000)

\* C16 amended: past the target, 12 is taken off the current hour, which
\* puts the target 12 hours later: in minutes, the delay is the distance
\* from now to the target plus 720 when past the target.
C16_CurrentHourMinus12 ==
  ScheduledByTime =>
    /\ ~delay.nan
    /\ delay.n = 60000 *
         ( MinuteOfDay(conf.time.hours.n, conf.time.minutes.n)
           - MinuteOfDay(now.hours, now.minutes)
           + (IF PastTarget THEN 12 * 60 ELSE 0) )

\* C16: scheduled past the target, later in the same hour.
C16_PastInSameHour ==
  /\ ScheduledByTime
  /\ now.hours = conf.time.hours.n /\ now.minutes > conf.time.minutes.n

\* C18: in time-of-day mode the delay is at least one minute.
C18_DelayPositive == ScheduledByTime => ~delay.nan /\ delay.n >= 60000

\* C18: scheduled at the very minute of the target.
C18_ScheduledOnTarget ==
  /\ ScheduledByTime
  /\ now.hours = conf.time.hours.n /\ now.minutes = conf.time.minutes.n
----
\* C12: a git failure in the steady-state loop is not caught: the turn stops
\* at the throw (no pull, start or scheduling follows it, nor a retry) and
\* the supervisor is gone: nothing of it changes again (the children only
\* end, and nobody observes it).
C12_FailureIsFatal ==
  [][/\ Has("throw", cycle') =>
          /\ pc' = "terminated"
          /\ cycle'[Len(cycle')] = "throw"
          /\ Count("throw", cycle') = 1
     /\ pc = "terminated" =>
          /\ UNCHANGED <<pc, commandProcess, timers, interval, currentRev,
                         upstreamRev, cycle, pullAlive, conf, delay>>
          /\ \A p \in Pids : child'[p] # child[p] =>
               child[p].state = "running" /\ child'[p].state = "exited"]_vars

\* C12: the pull failed after the child had been stopped; no child runs.
C12_PullFailedAfterStop ==
  /\ pc = "terminated" /\ command
  /\ cycle = <<"check", "differ", "signal", "exit", "throw">>
  /\ commandProcess = 0 /\ Running(child) = {}
----
\* The command line, as validateConfiguration is to judge it.

\* The script has run.
Launched == pc # "launch"

\* validateConfiguration returned false: usage, exit 1.
Rejected == Has("usage", cycle)

\* The frequency in force (-f, or the default 1440) is a positive integer.
FrequencyGood ==
  IF argv.frequency.given
  THEN ~argv.frequency.val.nan /\ argv.frequency.val.n >= 1
  ELSE TRUE

\* -t was given with a number.
TimeGiven == argv.time.given /\ ~argv.time.val.nan

\* C13: validateConfiguration rejects a command line with neither
\* repository nor path, and one with neither a time nor a positive integer
\* frequency; it accepts a path alone with a valid schedule, and a time
\* together with an invalid frequency.
C13_Validation ==
  Launched =>
    /\ (~argv.repository /\ ~argv.path) => Rejected
    /\ (~argv.time.given /\ ~FrequencyGood) => Rejected
    /\ (argv.path /\ ~argv.repository /\ (FrequencyGood \/ TimeGiven))
         => ~Rejected
    /\ ((argv.path \/ argv.repository) /\ TimeGiven /\ ~FrequencyGood)
         => ~Rejected

\* C13: a path alone with a good frequency has been judged.
C13_PathOnlyJudged ==
  Launched /\ argv.path /\ ~argv.repository /\ FrequencyGood
----
\* The command was started or a check was arranged.
LoopStarted ==
  \/ Has("start", cycle) \/ Has("schedule", cycle)
  \/ commandProcess # 0 \/ Running(child) # {} \/ timers > 0 \/ interval

\* The local tree was prepared: an existing directory pulled, or an absent
\* path cloned.
TreePrepared ==
  \/ fs = "dir" /\ Has("tree-pull", cycle)
  \/ fs = "absent" /\ Has("tree-clone", cycle)

\* A git call of the preparation fails, git itself being there.
GitFails(g) ==
  ~g.missing /\ (~g.fetch \/ (~g.checkout /\ ~g.track) \/ ~g.pull)

\* C14: setup errors are fatal before the loop starts.  A path that is not
\* a directory, an absent path without repository URI, a probe that fails
\* otherwise than by "path does not exist", a failing fetch, checkout or
\* pull: exit status 1, no command, no check.  The command is started and
\* the first check arranged only with the tree prepared.
C14_SetupErrorsFatal ==
  [][\A g \in GitRuns : Main(g) =>
       /\ ( \/ fs \in {"file", "error"}
            \/ fs = "absent" /\ ~argv.repository
            \/ fs = "dir" /\ GitFails(g) )
          => (pc' = "exit1" /\ ~LoopStarted')
       /\ LoopStarted' => (TreePrepared' /\ pc' = "running")
       /\ pc' = "running" =>
            /\ TreePrepared' /\ CheckPending'
            /\ command <=> commandProcess' # 0]_vars

\* C14: the path was absent, the clone succeeded, the command runs.
C14_StartedAfterClone ==
  /\ fs = "absent" /\ pc = "running" /\ Has("tree-clone", cycle)
  /\ Has("start", cycle) /\ CheckPending
----
\* C15: for a non-negative HHMM the parsed time has its hours in 0..23 and
\* its minutes in 0..59: the hundreds capped at 23, the rest capped at 59.
C15_TimeClamped ==
  (Launched /\ argv.time.given /\ ~argv.time.val.nan /\ argv.time.val.n >= 0)
  => LET hhmm == argv.time.val.n
         hh == hhmm \div 100
         mm == hhmm - 100 * hh
     IN /\ conf.time.set
        /\ ~conf.time.hours.nan /\ ~conf.time.minutes.nan
        /\ conf.time.hours.n \in 0..23
        /\ conf.time.minutes.n \in 0..59
        /\ conf.time.hours.n = (IF hh > 23 THEN 23 ELSE hh)
        /\ conf.time.minutes.n = (IF mm > 59 THEN 59 ELSE mm)

\* C15: -t 2561 was parsed: both parts out of range.
C15_OutOfRangeParsed ==
  /\ Launched /\ argv.time.given /\ argv.time.val = Num(2561)
  /\ conf.time.hours = Num(23) /\ conf.time.minutes = Num(59)
----
\* C17: when update() is entered again from the exit notification the
\* handle is null, so the re-entry takes the pull branch: the turn of an
\* exit sends no signal and registers no listener, and each listener of
\* update() pulls (or throws) once.  A cycle signals at most once, and in
\* part_000 at most one listener of update() waits on a child.
C17_ReentryPulls ==
  [][/\ Count("signal", cycle') <= 1
     /\ \A p \in Pids :
          (variant = "setTimeout" => Count("update", child[p].listeners) <= 1)
     /\ \A p \in Pids : (\E f \in 0..MaxGitCalls : DeliverExit(p, f)) =>
          LET added == SubSeq(cycle', Len(cycle) + 1, Len(cycle'))
              n == Count("update", child[p].listeners)
          IN /\ ~Has("signal", added)
             /\ \A q \in Pids :
                  Count("update", child'[q].listeners)
                    <= (IF q = p THEN 0
                        ELSE Count("update", child[q].listeners))
             /\ Count("pull", added) + Count("throw", added) <= n
             /\ n > 0 => added[2] \in {"pull", "throw"}
             /\ ~Has("throw", added) => Count("pull", added) = n]_vars

\* C17: a cycle signalled once and the re-entry pulled once.
C17_ReenteredOnce ==
  /\ pc = "running" /\ FoundDiffer /\ Has("exit", cycle)
  /\ Count("signal", cycle) = 1 /\ Count("pull", cycle) = 1
\* C19: between handler turns the handle is non-null exactly when the most
\* recently started child has not had its exit observed: a null handle
\* leaves no child whose exit is still to be observed, and a non-null
\* handle refers to the only such child, never to one whose exit was
\* delivered.
C19_HandleConsistent ==
  pc = "running" =>
    /\ commandProcess = 0 => Unreaped(child) = {}
    /\ commandProcess # 0 => Unreaped(child) = {commandProcess}

\* C19: the exit of the child the handle refers to has been delivered.
C19_ExitDelivered ==
  /\ pc = "running" /\ commandProcess # 0
  /\ child[commandProcess].state = "reaped"
\* C20: a child is started only by the startup step or right after a pull
\* of a cycle that found differing revisions: every "start" of a cycle
\* directly follows a "pull", a check that finds equal revisions starts
\* nothing, and the exit of a child no update() waits on starts nothing.
C20_StartOnlyAfterPull ==
  [][LET born == Running(child') \ Running(child)
     IN /\ born # {} =>
             \/ pc # "running" /\ pc' = "running"
             \/ FoundDiffer' /\ Has("pull", cycle')
        /\ \A i \in 1..Len(cycle') :
             (cycle'[1] = "check" /\ cycle'[i] = "start") =>
               i > 1 /\ cycle'[i - 1] = "pull" /\ FoundDiffer'
        /\ (CheckFires /\ FoundEqual') => born = {}
        /\ \A p \in Pids :
             ((\E f \in 0..MaxGitCalls : DeliverExit(p, f)) /\ ~WaitingOn(p))
               => born = {}]_vars

\* C20: the child ended on its own, its exit was observed, and a later
\* check found equal revisions: nothing runs.
C20_StaysDown ==
  /\ pc = "running" /\ command /\ FoundEqual /\ Has("exit", cycle)
  /\ Unreaped(child) = {}
  /\ \E p \in Pids : child[p].state = "reaped" /\ child[p].signals = 0

====
